---- MODULE Spec2Model ----
(***************************************************************************)
(* The COCO dataset adapters of                                            *)
(*   src/3. Model/objectdetection/Faster-RCNN/utils/dataset.py             *)
(* myCocoDetection (all images) and myCocolimit (images of the categories  *)
(* of class_list): construction computes the index list self.ids,          *)
(* __getitem__ turns the annotations of one image into corner boxes and    *)
(* labels.                                                                 *)
(*                                                                         *)
(* Numbers.  A bbox component is a Python float.  Coordinates are kept on  *)
(* a grid of 1/One pixel, as integers, and a float is a grid value with at *)
(* most MantBits significant bits; an addition rounds to the nearest such  *)
(* value, ties to even, as IEEE-754 does with 53 bits.  The cast to        *)
(* torch.FloatTensor rounds to SingleBits significant bits.                *)
(***************************************************************************)
EXTENDS Integers, Sequences, FiniteSets, TLC

\* ------------------------------------------------------------------ bounds
NumImgs == 3        \* images of the annotation store
MaxAnn == 2         \* annotations of one image
MaxStoreAnn == 2    \* annotations of the whole store
IndexSlack == 1     \* how far past either end of the index list get is called
MantBits == 3       \* significant bits of a float (53 in binary64)
MaxXY == 3          \* largest x, y of the single-annotation stores
MaxWH == 12         \* largest width, height of the single-annotation stores
NumWorkers == 2     \* data-loading workers calling get on one dataset
MaxEpoch == 3       \* largest opt.epoch
DataSize == 3       \* images in the test set: an accuracy is corrects/DataSize

\* the literal 1 of "if o <= 1", in grid units: one pixel
One == 8

SingleBits == MantBits - 1

\* --------------------------------------------------------------- floats
RECURSIVE Pow2(_)
Pow2(n) == IF n = 0 THEN 1 ELSE 2 * Pow2(n - 1)

RECURSIVE UlpOf(_, _, _)
\* the spacing of the floats of `bits` significant bits around v >= 0
UlpOf(v, u, bits) == IF v < u * Pow2(bits) THEN u ELSE UlpOf(v, 2 * u, bits)

\* round to nearest, ties to even
RoundTo(v, bits) ==
    LET a == IF v < 0 THEN -v ELSE v
        u == UlpOf(a, 1, bits)
        q == a \div u
        r == a % u
        m == IF 2 * r < u THEN q
             ELSE IF 2 * r > u THEN q + 1
             ELSE IF q % 2 = 0 THEN q ELSE q + 1
    IN  IF v < 0 THEN -(m * u) ELSE m * u

Representable(v) == RoundTo(v, MantBits) = v

\* a + b on Python floats
FAdd(a, b) == RoundTo(a + b, MantBits)

\* a - b on Python floats
FSub(a, b) == RoundTo(a - b, MantBits)

\* tensor.type(torch.FloatTensor) on one element
ToSingle(v) == RoundTo(v, SingleBits)

\* ------------------------------------------------------- the annotation store
\* dataset['categories'], in file order
Categories == << [id |-> 1, name |-> "person"], [id |-> 18, name |-> "dog"] >>

Range(s) == { s[k] : k \in 1..Len(s) }

\* the annotations the images of the store are made of: a well-formed person
\* (x 1, y 0.5, 1.5 wide, 1.75 high), a well-formed dog and a dog of width 0
Annos ==
    { [bbox |-> <<8, 4, 12, 14>>, category_id |-> 1],
      [bbox |-> <<0, 4, 12, 10>>, category_id |-> 18],
      [bbox |-> <<0, 0, 0, 40>>, category_id |-> 18] }

RECURSIVE SeqsUpTo(_, _)
SeqsUpTo(S, n) ==
    IF n = 0 THEN { <<>> }
    ELSE LET shorter == SeqsUpTo(S, n - 1)
         IN  shorter \cup { Append(s, a) : s \in { t \in shorter : Len(t) = n - 1 }, a \in S }

Images == 1..NumImgs

RECURSIVE NumAnns(_, _)
\* the annotations of the images 1..n of store s
NumAnns(s, n) == IF n = 0 THEN 0 ELSE Len(s[n]) + NumAnns(s, n - 1)

Stores == { s \in [Images -> SeqsUpTo(Annos, MaxAnn)] : NumAnns(s, NumImgs) <= MaxStoreAnn }

\* the single-annotation stores: one image, one annotation, every float bbox
\* of the grid up to MaxXY, MaxWH
XYs == { v \in 0..MaxXY : Representable(v) }
WHs == { v \in 0..MaxWH : Representable(v) }

BoxStores ==
    { [i \in {1} |-> << [bbox |-> <<x, y, w, h>>, category_id |-> 1] >>] :
        x \in XYs, y \in XYs, w \in WHs, h \in WHs }

\* the single-image stores whose annotations have widths and heights on
\* either side of one pixel
EdgeDims == { d \in {0, One - 1, One, One + 2} : Representable(d) }

EdgeAnnos == { [bbox |-> <<0, 0, w, h>>, category_id |-> 1] : w \in EdgeDims, h \in EdgeDims }

EdgeStores == { [i \in {1} |-> s] : s \in SeqsUpTo(EdgeAnnos, MaxAnn) }

ClassLists ==
    { <<>>, <<"person">>, <<"dog">>, <<"person", "dog">>, <<"unicorn">> }

VARIABLES
    imgToAnns,            \* coco.imgToAnns: image id -> its annotations, in file order
    cls,                  \* the class constructed: "myCocoDetection" or "myCocolimit"
    class_list,           \* constructor argument (myCocolimit)
    remove_invalid_data,  \* constructor argument
    transform,            \* constructor argument: "None" or "ToTensor"
    show,                 \* constructor argument
    pc,                   \* "new" before __init__ has run, "built" after
    catIds,               \* self.catIds
    ids,                  \* self.ids
    ret,                  \* the outcome of the last call
    workers,              \* each worker's __getitem__ in progress: its position in
                          \* the method, its locals index, idx, target, and what
                          \* its last call returned or raised
    opt,                  \* main of train.py: opt.resume, opt.epoch
    checkpoint,           \* the file torch.load reads from opt.resume
    best_acc,
    best,
    start_epoch,
    e,
    test_result,
    ckpt,                 \* the file {result_path}/{opt.model}_ckpt.pth
    mpc                   \* the position of main

vars == << imgToAnns, cls, class_list, remove_invalid_data, transform, show,
           pc, catIds, ids, ret, workers,
           opt, checkpoint, best_acc, best, start_epoch, e, test_result, ckpt, mpc >>

dataset == << imgToAnns, cls, class_list, remove_invalid_data, transform, show,
              pc, catIds, ids, ret, workers >>

training == << opt, checkpoint, best_acc, best, start_epoch, e, test_result, ckpt, mpc >>

args == << imgToAnns, cls, class_list, remove_invalid_data, transform, show >>

\* what the calls of one caller leave alone
others == << workers, training >>

Workers == 1..NumWorkers

\* ------------------------------------------------------------ pycocotools
RECURSIVE Sorted(_)
\* list(set(...)) and sorted(...) of image ids: ascending
Sorted(S) ==
    IF S = {} THEN <<>>
    ELSE LET m == CHOOSE x \in S : \A y \in S : x <= y
         IN  <<m>> \o Sorted(S \ {m})

\* CocoDetection.__init__: self.ids = list(sorted(self.coco.imgs.keys()))
AllImgIds == Sorted(DOMAIN imgToAnns)

RECURSIVE MapId(_)
MapId(cats) == IF cats = <<>> THEN <<>> ELSE <<Head(cats).id>> \o MapId(Tail(cats))

\* coco.getCatIds(catNms=names)
getCatIds(names) ==
    IF Len(names) = 0 THEN MapId(Categories)
    ELSE MapId(SelectSeq(Categories, LAMBDA c : c.name \in Range(names)))

\* coco.getImgIds(catIds=catId): list(set(catToImgs[catId]))
getImgIds(catId) ==
    Sorted({ i \in DOMAIN imgToAnns :
               \E k \in 1..Len(imgToAnns[i]) : imgToAnns[i][k].category_id = catId })

\* coco.loadAnns(coco.getAnnIds(imgIds=img_id))
loadAnns(img_id) == imgToAnns[img_id]

\* ---------------------------------------------------------- is_valid_data
RECURSIVE Detection_is_valid_objs_height_only(_)
\* the loop over obj['bbox'][3:] instead of obj['bbox'][2:]
Detection_is_valid_objs_height_only(anno) ==
    IF anno = <<>> THEN TRUE
    ELSE IF Head(anno).bbox[4] <= One THEN FALSE
    ELSE Detection_is_valid_objs_height_only(Tail(anno))

RECURSIVE Detection_is_valid_objs(_)
Detection_is_valid_objs(anno) ==
    IF anno = <<>> THEN TRUE
    ELSE IF Head(anno).bbox[3] <= One THEN FALSE
    ELSE IF Head(anno).bbox[4] <= One THEN FALSE
    ELSE Detection_is_valid_objs(Tail(anno))

Detection_is_valid_data(anno) ==
    IF Len(anno) = 0 THEN FALSE ELSE Detection_is_valid_objs(anno)

RECURSIVE Limit_is_valid_objs(_)
Limit_is_valid_objs(anno) ==
    IF anno = <<>> THEN TRUE
    ELSE IF Head(anno).bbox[3] <= One THEN FALSE
    ELSE IF Head(anno).bbox[4] <= One THEN FALSE
    ELSE Limit_is_valid_objs(Tail(anno))

Limit_is_valid_data(anno) ==
    IF Len(anno) = 0 THEN FALSE ELSE Limit_is_valid_objs(anno)

\* ------------------------------------------------------------- __init__
\* the loop "for img_id in self.ids: ... if self.is_valid_data(anno): ids.append(img_id)"
\* "self.ids = ids" left out
Detection_remove_invalid_unassigned(candidates) == candidates

Limit_remove_invalid_unassigned(candidates) == candidates

Detection_remove_invalid(candidates) ==
    SelectSeq(candidates, LAMBDA img_id : Detection_is_valid_data(loadAnns(img_id)))

Limit_remove_invalid(candidates) ==
    SelectSeq(candidates, LAMBDA img_id : Limit_is_valid_data(loadAnns(img_id)))

RECURSIVE Limit_candidates(_)
\* "for id in self.catIds: self.ids.extend(self.coco.getImgIds(catIds=id))"
Limit_candidates(cids) ==
    IF cids = <<>> THEN <<>>
    ELSE getImgIds(Head(cids)) \o Limit_candidates(Tail(cids))

NoRet == [op |-> "none", raised |-> "none", index |-> 0, value |-> <<>>]

Detection_init ==
    /\ pc = "new"
    /\ cls = "myCocoDetection"
    /\ ids' = IF remove_invalid_data THEN Detection_remove_invalid(AllImgIds)
              ELSE AllImgIds
    /\ pc' = "built"
    /\ ret' = [NoRet EXCEPT !.op = "__init__"]
    /\ UNCHANGED << others, args, catIds >>

Limit_init ==
    /\ pc = "new"
    /\ cls = "myCocolimit"
    /\ catIds' = getCatIds(class_list)
    /\ ids' = IF remove_invalid_data THEN Limit_remove_invalid(Limit_candidates(catIds'))
              ELSE Limit_candidates(catIds')
    /\ pc' = "built"
    /\ ret' = [NoRet EXCEPT !.op = "__init__"]
    /\ UNCHANGED << others, args >>

\* ----------------------------------------------------------- __getitem__
Detection_load_target(id) == loadAnns(id)

\* the category filter of _load_target left out
Limit_load_target_unfiltered(id) == loadAnns(id)

Limit_load_target(id) ==
    SelectSeq(loadAnns(id), LAMBDA ann : ann.category_id \in Range(catIds))

\* the width and height copied where the far corner belongs
Corner_xywh(bbox) == << bbox[1], bbox[2], bbox[3], bbox[4] >>

\* [bbox[0], bbox[1], bbox[0] + bbox[2], bbox[1] + bbox[3]]
Corner(bbox) == << bbox[1], bbox[2], FAdd(bbox[1], bbox[3]), FAdd(bbox[2], bbox[4]) >>

RECURSIVE Bboxes_skip_degenerate(_)
\* degenerate boxes skipped in the loop, their labels kept
Bboxes_skip_degenerate(target) ==
    IF target = <<>> THEN <<>>
    ELSE IF Head(target).bbox[3] <= One \/ Head(target).bbox[4] <= One
    THEN Bboxes_skip_degenerate(Tail(target))
    ELSE << << Head(target).bbox[1], Head(target).bbox[2],
               FAdd(Head(target).bbox[1], Head(target).bbox[3]),
               FAdd(Head(target).bbox[2], Head(target).bbox[4]) >> >>
         \o Bboxes_skip_degenerate(Tail(target))

RECURSIVE Bboxes(_)
Bboxes(target) ==
    IF target = <<>> THEN <<>> ELSE <<Corner(Head(target).bbox)>> \o Bboxes(Tail(target))

RECURSIVE Labels(_)
Labels(target) ==
    IF target = <<>> THEN <<>> ELSE <<Head(target).category_id>> \o Labels(Tail(target))

\* bboxes.type(torch.FloatTensor) of the N x 4 array ToTensor leaves unchanged
RECURSIVE FloatTensor(_)
FloatTensor(bboxes) ==
    IF bboxes = <<>> THEN <<>>
    ELSE LET b == Head(bboxes)
         IN  << <<ToSingle(b[1]), ToSingle(b[2]), ToSingle(b[3]), ToSingle(b[4])>> >>
             \o FloatTensor(Tail(bboxes))

\* an explicit check 0 <= index < len(self.ids)
InRange_nonnegative(index) == 0 <= index /\ index < Len(ids)

\* self.ids[index]: a Python list subscript
InRange(index) == -Len(ids) <= index /\ index < Len(ids)

Subscript(index) == IF index >= 0 THEN ids[index + 1] ELSE ids[Len(ids) + index + 1]

\* "if self.show: return image, bboxes, labels" left out
Assemble_show_ignored(op, index, idx, target) ==
    IF transform = "None"
    THEN [op |-> op, raised |-> "none", index |-> index,
          value |-> << [kind |-> "image", val |-> [id |-> idx, transformed |-> FALSE]],
                       [kind |-> "bboxes", val |-> Bboxes(target)],
                       [kind |-> "labels", val |-> Labels(target)] >>]
    ELSE IF target = <<>>
    THEN [op |-> op, raised |-> "ValueError", index |-> index, value |-> <<>>]
    ELSE [op |-> op, raised |-> "none", index |-> index,
          value |-> << [kind |-> "image_id", val |-> idx],
                       [kind |-> "image", val |-> [id |-> idx, transformed |-> TRUE]],
                       [kind |-> "targets",
                        val |-> [boxes |-> FloatTensor(Bboxes(target)),
                                 labels |-> Labels(target)]] >>]

\* what __getitem__ does once idx = self.ids[index] is known and target loaded;
\* _load_image finds the file of every image of the store, and the transform
\* is the ToTensor of the module's own use of the class
Assemble(op, index, idx, target) ==
    LET bboxes == Bboxes(target)
        labels == Labels(target)
    IN  IF show \/ transform = "None"
        THEN [op |-> op, raised |-> "none", index |-> index,
              value |-> << [kind |-> "image", val |-> [id |-> idx, transformed |-> FALSE]],
                           [kind |-> "bboxes", val |-> bboxes],
                           [kind |-> "labels", val |-> labels] >>]
        ELSE IF bboxes = <<>>
        \* ToTensor refuses np.array([]), an array of one dimension
        THEN [op |-> op, raised |-> "ValueError", index |-> index, value |-> <<>>]
        ELSE [op |-> op, raised |-> "none", index |-> index,
              value |-> << [kind |-> "image_id", val |-> idx],
                           [kind |-> "image", val |-> [id |-> idx, transformed |-> TRUE]],
                           [kind |-> "targets",
                            val |-> [boxes |-> FloatTensor(bboxes), labels |-> labels]] >>]

IndexError(op, index) == [op |-> op, raised |-> "IndexError", index |-> index, value |-> <<>>]

Indexes == (0 - Len(ids) - IndexSlack) .. (Len(ids) + IndexSlack - 1)

Detection_getitem(index) ==
    /\ pc = "built"
    /\ cls = "myCocoDetection"
    /\ ret' = IF InRange(index)
              THEN Assemble("__getitem__", index, Subscript(index),
                            Detection_load_target(Subscript(index)))
              ELSE IndexError("__getitem__", index)
    /\ UNCHANGED << others, args, pc, catIds, ids >>

Limit_getitem(index) ==
    /\ pc = "built"
    /\ cls = "myCocolimit"
    /\ ret' = IF InRange(index)
              THEN Assemble("__getitem__", index, Subscript(index),
                            Limit_load_target(Subscript(index)))
              ELSE IndexError("__getitem__", index)
    /\ UNCHANGED << others, args, pc, catIds, ids >>

\* ------------------------------------------ __getitem__, statement by statement
IdleWorker == [pc |-> "idle", index |-> 0, idx |-> 0, target |-> <<>>, out |-> NoRet]

\* the indexes a sampler hands to the workers, and the first one past the end
SampledIndexes == 0 .. Len(ids)

\* idx = self.ids[index]
Worker_subscript(w, index) ==
    /\ pc = "built"
    /\ workers[w].pc = "idle"
    /\ workers' = [workers EXCEPT ![w] =
                     IF InRange(index)
                     THEN [pc |-> "subscripted", index |-> index, idx |-> Subscript(index),
                           target |-> <<>>, out |-> NoRet]
                     ELSE [IdleWorker EXCEPT !.out = IndexError("__getitem__", index)]]
    /\ UNCHANGED << training, args, pc, catIds, ids, ret >>

\* image = self._load_image(idx); target = self._load_target(idx)
Detection_worker_load(w) ==
    /\ cls = "myCocoDetection"
    /\ workers[w].pc = "subscripted"
    /\ workers' = [workers EXCEPT ![w].pc = "loaded",
                                  ![w].target = Detection_load_target(workers[w].idx)]
    /\ UNCHANGED << training, args, pc, catIds, ids, ret >>

\* _load_target storing the filtered list back into the store
Limit_worker_load_in_place(w) ==
    /\ cls = "myCocolimit"
    /\ workers[w].pc = "subscripted"
    /\ workers' = [workers EXCEPT ![w].pc = "loaded",
                                  ![w].target = Limit_load_target(workers[w].idx)]
    /\ imgToAnns' = [imgToAnns EXCEPT ![workers[w].idx] = Limit_load_target(workers[w].idx)]
    /\ UNCHANGED << training, cls, class_list, remove_invalid_data, transform, show,
                    pc, catIds, ids, ret >>

Limit_worker_load(w) ==
    /\ cls = "myCocolimit"
    /\ workers[w].pc = "subscripted"
    /\ workers' = [workers EXCEPT ![w].pc = "loaded",
                                  ![w].target = Limit_load_target(workers[w].idx)]
    /\ UNCHANGED << training, args, pc, catIds, ids, ret >>

\* the loop over target and the return
Worker_return(w) ==
    /\ workers[w].pc = "loaded"
    /\ workers' = [workers EXCEPT ![w] =
                     [IdleWorker EXCEPT !.out = Assemble("__getitem__", workers[w].index,
                                                         workers[w].idx, workers[w].target)]]
    /\ UNCHANGED << training, args, pc, catIds, ids, ret >>

\* dataset.is_valid_data(anno), called on the annotations of an image of the store
Detection_call_is_valid_data(img_id) ==
    /\ pc = "built"
    /\ cls = "myCocoDetection"
    /\ ret' = [op |-> "is_valid_data", raised |-> "none", index |-> img_id,
               value |-> << [kind |-> "bool", val |-> Detection_is_valid_data(loadAnns(img_id))] >>]
    /\ UNCHANGED << others, args, pc, catIds, ids >>

Limit_call_is_valid_data(img_id) ==
    /\ pc = "built"
    /\ cls = "myCocolimit"
    /\ ret' = [op |-> "is_valid_data", raised |-> "none", index |-> img_id,
               value |-> << [kind |-> "bool", val |-> Limit_is_valid_data(loadAnns(img_id))] >>]
    /\ UNCHANGED << others, args, pc, catIds, ids >>

\* ------------------------------------------------------ train.py: main
\* an accuracy corrects/data_size is kept as corrects, the numerator over DataSize
Accs == 0..DataSize

\* sum(iter_loss)/data_size, two values
Losses == {0, 1}

NoFile == [epoch |-> 0, acc |-> 0, test_result |-> <<>>, written |-> FALSE]

Unbound == 0 - 1

RECURSIVE OddSlice(_)
\* test_result[1::2]
OddSlice(l) ==
    IF Len(l) < 2 THEN <<>> ELSE << l[2] >> \o OddSlice(SubSeq(l, 3, Len(l)))

\* [-1]
Last(l) == l[Len(l)]

\* the checkpoints a one-epoch run leaves: written because the accuracy is above 0
Checkpoints ==
    { [epoch |-> 1, acc |-> a, test_result |-> << l, a >>, written |-> TRUE] :
        a \in Accs \ {0}, l \in Losses }

\* main is not running
NoMain ==
    /\ opt = [resume |-> FALSE, epoch |-> 1]
    /\ checkpoint = NoFile
    /\ best_acc = Unbound /\ best = Unbound /\ start_epoch = Unbound /\ e = Unbound
    /\ test_result = <<>>
    /\ ckpt = NoFile
    /\ mpc = "none"

\* "if opt.resume: ... else: ..."
Main_resume ==
    /\ mpc = "resuming"
    /\ IF opt.resume
       THEN /\ best_acc' = checkpoint.acc
            /\ start_epoch' = checkpoint.epoch
            /\ test_result' = checkpoint.test_result
       ELSE /\ start_epoch' = 0
            /\ best_acc' = 0
            /\ test_result' = <<>>
    /\ e' = start_epoch'
    /\ mpc' = "training"
    /\ UNCHANGED << dataset, opt, checkpoint, best, ckpt >>

\* one turn of "for e in range(start_epoch, start_epoch+opt.epoch)";
\* test(...) returns [loss, acc]
Main_epoch(loss, acc) ==
    /\ mpc = "training"
    /\ test_result' = test_result \o << loss, acc >>
    /\ IF Last(OddSlice(test_result')) > best_acc
       THEN /\ ckpt' = [epoch |-> e + 1, acc |-> Last(OddSlice(test_result')),
                        test_result |-> test_result', written |-> TRUE]
            \* "best = test_result[1::2][-1]": best_acc is not assigned
            /\ best' = Last(OddSlice(test_result'))
       ELSE UNCHANGED << ckpt, best >>
    /\ e' = e + 1
    /\ mpc' = IF e + 1 < start_epoch + opt.epoch THEN "training" ELSE "done"
    /\ UNCHANGED << dataset, opt, checkpoint, start_epoch, best_acc >>

\* ------------------------------------------------------- specifications
InitArgs(stores, lists) ==
    /\ imgToAnns \in stores
    /\ cls \in {"myCocoDetection", "myCocolimit"}
    /\ class_list \in (IF cls = "myCocolimit" THEN lists ELSE { <<>> })
    /\ remove_invalid_data \in BOOLEAN
    /\ transform \in {"None", "ToTensor"}
    /\ show \in BOOLEAN
    /\ pc = "new"
    /\ catIds = <<>>
    /\ ids = <<>>
    /\ ret = NoRet
    /\ workers = [w \in Workers |-> IdleWorker]

Init == InitArgs(Stores, ClassLists) /\ NoMain

Next ==
    \/ Detection_init
    \/ Limit_init
    \/ \E index \in Indexes : Detection_getitem(index)
    \/ \E index \in Indexes : Limit_getitem(index)

Spec == Init /\ [][Next]_vars

\* one image: every float bbox, and every list of annotations around one pixel
InitOne ==
    /\ InitArgs(BoxStores \cup EdgeStores, { <<>>, <<"person">> })
    /\ show = FALSE
    /\ NoMain

NextOne ==
    \/ Detection_init
    \/ Limit_init
    \/ \E index \in Indexes : Detection_getitem(index)
    \/ \E index \in Indexes : Limit_getitem(index)
    \/ \E img_id \in DOMAIN imgToAnns : Detection_call_is_valid_data(img_id)
    \/ \E img_id \in DOMAIN imgToAnns : Limit_call_is_valid_data(img_id)

SpecOne == InitOne /\ [][NextOne]_vars

\* several workers inside __getitem__ of one dataset, built as the module
\* itself builds it: ToTensor, show off; the stores annotate at most one image
WorkerStores == { s \in Stores : Cardinality({ i \in Images : s[i] # <<>> }) <= 1 }

InitWorkers ==
    /\ InitArgs(WorkerStores, { <<"person">>, <<"person", "dog">> })
    /\ show = FALSE
    /\ transform = "ToTensor"
    /\ NoMain

NextWorkers ==
    \/ Detection_init
    \/ Limit_init
    \/ \E w \in Workers, index \in SampledIndexes : Worker_subscript(w, index)
    \/ \E w \in Workers : Detection_worker_load(w)
    \/ \E w \in Workers : Limit_worker_load(w)
    \/ \E w \in Workers : Worker_return(w)

SpecWorkers == InitWorkers /\ [][NextWorkers]_vars

\* main of train.py, from the resume block to the end of the loop
InitTrain ==
    /\ InitArgs({ [i \in Images |-> <<>>] }, { <<>> })
    /\ cls = "myCocoDetection" /\ ~remove_invalid_data /\ transform = "None" /\ ~show
    /\ opt \in [resume : BOOLEAN, epoch : 1..MaxEpoch]
    /\ checkpoint \in (IF opt.resume THEN Checkpoints ELSE { NoFile })
    /\ best_acc = Unbound /\ best = Unbound /\ start_epoch = Unbound /\ e = Unbound
    /\ test_result = <<>>
    /\ ckpt = NoFile
    /\ mpc = "resuming"

NextTrain ==
    \/ Main_resume
    \/ \E loss \in Losses, acc \in Accs : Main_epoch(loss, acc)

SpecTrain == InitTrain /\ [][NextTrain]_vars

\* ------------------------------------------------------------- the claims
\* what a claim means by a well-formed annotation list
WellFormed(anno) ==
    /\ Len(anno) > 0
    /\ \A k \in 1..Len(anno) : anno[k].bbox[3] > One /\ anno[k].bbox[4] > One

Built == pc = "built"

Returned == ret.op = "__getitem__" /\ ret.raised = "none"

ListShaped == Returned /\ ret.value[1].kind = "image"

\* the boxes, the labels and the image of the record get returned
RetBoxes == IF ret.value[1].kind = "image" THEN ret.value[2].val ELSE ret.value[3].val.boxes

RetLabels == IF ret.value[1].kind = "image" THEN ret.value[3].val ELSE ret.value[3].val.labels

RetImage == IF ret.value[1].kind = "image" THEN ret.value[1].val.id ELSE ret.value[2].val.id

\* the annotations of image i that get loads
View(i) ==
    IF cls = "myCocoDetection" THEN imgToAnns[i]
    ELSE SelectSeq(imgToAnns[i], LAMBDA ann : ann.category_id \in Range(catIds))

\* C1: is_valid_data(anno), of either class, is true exactly when anno is
\* non-empty and every annotation of it is more than one pixel wide and more
\* than one pixel high.
C1_IsValidWholeImage ==
    ret.op = "is_valid_data" =>
        ret.value[1].val = WellFormed(imgToAnns[ret.index])

\* C1 witness: is_valid_data answered false for two annotations, the first
\* well-formed, the second exactly one pixel high.
C1_Witness ==
    /\ ret.op = "is_valid_data"
    /\ ret.value[1].val = FALSE
    /\ Len(imgToAnns[ret.index]) = 2
    /\ WellFormed(<<imgToAnns[ret.index][1]>>)
    /\ imgToAnns[ret.index][2].bbox[3] > One
    /\ imgToAnns[ret.index][2].bbox[4] = One

\* C2: myCocoDetection built with remove_invalid_data holds exactly the image
\* ids whose annotation list is well-formed, in ascending (store) order;
\* built without it, every image id of the store in that order.
C2_DetectionIndexList ==
    (Built /\ cls = "myCocoDetection") =>
        /\ \A j, k \in 1..Len(ids) : j < k => ids[j] < ids[k]
        /\ Range(ids) = IF remove_invalid_data
                        THEN { i \in Images : WellFormed(imgToAnns[i]) }
                        ELSE Images

\* C2 witness: image 1 with one well-formed box, image 2 without annotations,
\* image 3 with one degenerate box; the validated index list is [1].
C2_Witness ==
    /\ Built /\ cls = "myCocoDetection" /\ remove_invalid_data
    /\ NumImgs >= 3
    /\ WellFormed(imgToAnns[1]) /\ Len(imgToAnns[1]) = 1
    /\ imgToAnns[2] = <<>>
    /\ Len(imgToAnns[3]) = 1 /\ ~WellFormed(imgToAnns[3])
    /\ SubSeq(ids, 1, 1) = <<1>>
    /\ \A k \in 1..Len(ids) : ids[k] \notin {2, 3}

\* C3: every box get returns from a dataset of either class built with
\* remove_invalid_data has x2 > x1 and y2 > y1.
C3_BoxesStrict ==
    (Returned /\ remove_invalid_data) =>
        \A k \in 1..Len(RetBoxes) :
            RetBoxes[k][3] > RetBoxes[k][1] /\ RetBoxes[k][4] > RetBoxes[k][2]

\* C3 witness: a validated myCocolimit returned a tensor of two boxes.
C3_Witness ==
    /\ Returned /\ remove_invalid_data /\ cls = "myCocolimit"
    /\ ret.value[1].kind = "image_id"
    /\ Len(RetBoxes) = 2

\* C4: the boxes and labels get returns are as many as the annotations of the
\* view of the image (all of them, or those of the resolved categories), and
\* the k-th box and the k-th label are those of the k-th annotation of the view.
C4_BoxesLabelsAligned ==
    Returned =>
        LET view == View(RetImage) IN
        /\ Len(RetBoxes) = Len(view)
        /\ Len(RetLabels) = Len(view)
        /\ \A k \in 1..Len(view) :
            /\ RetLabels[k] = view[k].category_id
            /\ RetBoxes[k] = IF ListShaped
                             THEN Corner(view[k].bbox)
                             ELSE << ToSingle(Corner(view[k].bbox)[1]),
                                     ToSingle(Corner(view[k].bbox)[2]),
                                     ToSingle(Corner(view[k].bbox)[3]),
                                     ToSingle(Corner(view[k].bbox)[4]) >>

\* C4 witness: a myCocolimit restricted to one category returned one box and
\* one label for an image that has two annotations, of different categories.
C4_Witness ==
    /\ Returned /\ cls = "myCocolimit"
    /\ Len(imgToAnns[RetImage]) = 2
    /\ imgToAnns[RetImage][1].category_id # imgToAnns[RetImage][2].category_id
    /\ Len(RetBoxes) = 1 /\ Len(RetLabels) = 1

\* C5 as stated: for every bbox (x, y, w, h) with w > 1 and h > 1 the box of
\* the list get builds is (x, y, x2, y2) with x2 - x1 == w and y2 - y1 == h.
C5_RoundTripExact ==
    ListShaped =>
        \A k \in 1..Len(RetBoxes) :
            LET b == View(RetImage)[k].bbox IN
            (b[3] > One /\ b[4] > One) =>
                /\ RetBoxes[k][1] = b[1] /\ RetBoxes[k][2] = b[2]
                /\ FSub(RetBoxes[k][3], RetBoxes[k][1]) = b[3]
                /\ FSub(RetBoxes[k][4], RetBoxes[k][2]) = b[4]

\* C5 amended: the box of the list get builds is (x, y, x + w, y + h) with the
\* sums rounded as float sums are; x2 - x1 == w when x + w is a float, and
\* y2 - y1 == h when y + h is.
C5_RoundTripWhenSumIsFloat ==
    ListShaped =>
        \A k \in 1..Len(RetBoxes) :
            LET b == View(RetImage)[k].bbox IN
            /\ RetBoxes[k][1] = b[1] /\ RetBoxes[k][2] = b[2]
            /\ RetBoxes[k][3] = RoundTo(b[1] + b[3], MantBits)
            /\ RetBoxes[k][4] = RoundTo(b[2] + b[4], MantBits)
            /\ (b[3] > One /\ b[4] > One) =>
                /\ Representable(b[1] + b[3]) => FSub(RetBoxes[k][3], RetBoxes[k][1]) = b[3]
                /\ Representable(b[2] + b[4]) => FSub(RetBoxes[k][4], RetBoxes[k][2]) = b[4]

\* C5 witness: get returned the list box of a bbox more than one pixel wide
\* and high, away from the origin, whose sums are floats.
C5_Witness ==
    /\ ListShaped /\ Len(RetBoxes) = 1
    /\ LET b == View(RetImage)[1].bbox IN
        /\ b[1] > 0 /\ b[2] > 0 /\ b[3] > One /\ b[4] > One
        /\ Representable(b[1] + b[3]) /\ Representable(b[2] + b[4])
        /\ RetBoxes[1][3] - RetBoxes[1][1] = b[3]
        /\ RetBoxes[1][4] - RetBoxes[1][2] = b[4]

\* the category ids the names of class_list stand for
Resolved ==
    IF class_list = <<>> THEN { Categories[k].id : k \in 1..Len(Categories) }
    ELSE { Categories[k].id : k \in { j \in 1..Len(Categories) :
                                        Categories[j].name \in Range(class_list) } }

\* the annotations of image i that are of the resolved categories
Requested(i) == SelectSeq(imgToAnns[i], LAMBDA ann : ann.category_id \in Resolved)

\* C6 as stated: a myCocolimit built with remove_invalid_data keeps an image
\* exactly when its annotations of the requested categories are non-empty and
\* all more than one pixel wide and high, whatever its other annotations are.
C6_ValidatesFilteredView ==
    (Built /\ cls = "myCocolimit" /\ remove_invalid_data) =>
        \A i \in Images : (i \in Range(ids)) <=> WellFormed(Requested(i))

\* C7 as stated: no image id occurs twice in the index list of a myCocolimit.
C7_NoDuplicateIds ==
    (Built /\ cls = "myCocolimit") =>
        \A j, k \in 1..Len(ids) : j # k => ids[j] # ids[k]

\* C8: the ids of a myCocolimit are ids of the myCocoDetection of the same
\* store and remove_invalid_data, self.catIds are the ids the names of
\* class_list resolve to, and every label get returns is one of them.
C8_SubsetAndLabels ==
    (Built /\ cls = "myCocolimit") =>
        /\ Range(ids) \subseteq (IF remove_invalid_data
                                 THEN { i \in Images : WellFormed(imgToAnns[i]) }
                                 ELSE Images)
        /\ Range(catIds) = Resolved
        /\ Returned => \A k \in 1..Len(RetLabels) : RetLabels[k] \in Resolved

\* C8 witness: a myCocolimit of one category name, with fewer ids than the
\* store has images, returned the one label of that category for an image
\* that also has an annotation of another category.
C8_Witness ==
    /\ Built /\ cls = "myCocolimit" /\ Returned
    /\ Len(class_list) = 1 /\ Cardinality(Resolved) = 1
    /\ Range(ids) # Images /\ Range(ids) # {}
    /\ \E k \in 1..Len(imgToAnns[RetImage]) : imgToAnns[RetImage][k].category_id \notin Resolved
    /\ Len(RetLabels) = 1 /\ RetLabels[1] \in Resolved

\* C9 as stated: the construction of a myCocolimit whose class_list is
\* non-empty and names no category of the store never completes.
C9_UnknownNamesFail ==
    (cls = "myCocolimit" /\ class_list # <<>> /\ Resolved = {}) => ~Built

\* C10 as stated: get fails with IndexError for every index outside
\* 0 <= index < len(ids), the negative ones included, and returns the record
\* of the image id at position index for every index inside.
C10_BoundsChecked ==
    ret.op = "__getitem__" =>
        IF 0 <= ret.index /\ ret.index < Len(ids)
        THEN Returned /\ RetImage = ids[ret.index + 1]
        ELSE ret.raised = "IndexError" /\ ret.value = <<>>

\* C10 amended: get fails with IndexError exactly for index < -len(ids) and
\* index >= len(ids), returning nothing; an index -len(ids) <= index < 0
\* stands for position len(ids) + index; the record get returns is that of
\* the image id at the position.
C10_PythonSubscript ==
    ret.op = "__getitem__" =>
        LET n == Len(ids)
            inside == 0 - n <= ret.index /\ ret.index < n
        IN  /\ (ret.raised = "IndexError") <=> ~inside
            /\ ret.raised = "IndexError" => ret.value = <<>>
            /\ Returned => RetImage = ids[(IF ret.index < 0 THEN n + ret.index ELSE ret.index) + 1]

\* C10 witness: get(-1) returned the record of the last image id of an index
\* list of at least two ids.
C10_Witness ==
    /\ Returned /\ ret.index = -1
    /\ Len(ids) >= 2 /\ ids[1] # ids[Len(ids)]
    /\ RetImage = ids[Len(ids)]

\* the position of the index list that ret.index addresses
RetPosition == (IF ret.index < 0 THEN Len(ids) + ret.index ELSE ret.index) + 1

\* C11 as stated: every record get returns, whatever transform and show are,
\* is (image_id, image, Target): the image id of the position first, the
\* boxes and labels third.
C11_AlwaysIdImageTarget ==
    Returned =>
        /\ Len(ret.value) = 3
        /\ ret.value[1].kind = "image_id"
        /\ ret.value[1].val = ids[RetPosition]
        /\ ret.value[2].kind = "image"
        /\ ret.value[3].kind = "targets"

\* C11 amended: get returns (image_id, image, {boxes, labels}), the image id
\* of the position first, when a transform is set and show is off; with show
\* on or without a transform it returns (image, bboxes, labels), two lists
\* and no image id.
C11_ShapeByShowAndTransform ==
    Returned =>
        /\ Len(ret.value) = 3
        /\ IF show \/ transform = "None"
           THEN /\ ret.value[1].kind = "image"
                /\ ret.value[1].val.id = ids[RetPosition]
                /\ ret.value[2].kind = "bboxes"
                /\ ret.value[3].kind = "labels"
           ELSE /\ ret.value[1].kind = "image_id"
                /\ ret.value[1].val = ids[RetPosition]
                /\ ret.value[2].kind = "image"
                /\ ret.value[2].val.id = ids[RetPosition]
                /\ ret.value[3].kind = "targets"
                /\ DOMAIN ret.value[3].val = {"boxes", "labels"}

\* C11 witness: with a transform set and show off, get returned the image id
\* of the second position first and a Target of one box and one label third.
C11_Witness ==
    /\ Returned /\ ~show /\ transform = "ToTensor"
    /\ RetPosition = 2
    /\ ret.value[1].kind = "image_id" /\ ret.value[1].val = ids[2]
    /\ ret.value[3].kind = "targets"
    /\ Len(ret.value[3].val.boxes) = 1 /\ Len(ret.value[3].val.labels) = 1

\* what the constructor leaves in self.ids and self.catIds
FreshCatIds == IF cls = "myCocolimit" THEN getCatIds(class_list) ELSE <<>>

FreshIds ==
    IF cls = "myCocoDetection"
    THEN IF remove_invalid_data THEN Detection_remove_invalid(AllImgIds) ELSE AllImgIds
    ELSE IF remove_invalid_data THEN Limit_remove_invalid(Limit_candidates(FreshCatIds))
         ELSE Limit_candidates(FreshCatIds)

\* get(index) run alone, from the first statement to the return
Alone(index) ==
    IF InRange(index)
    THEN Assemble("__getitem__", index, Subscript(index),
                  IF cls = "myCocoDetection" THEN Detection_load_target(Subscript(index))
                  ELSE Limit_load_target(Subscript(index)))
    ELSE IndexError("__getitem__", index)

\* C12: once the dataset is built, however the get calls of several workers
\* interleave, the index list and the resolved category ids are the ones the
\* constructor left, no step changes the annotation store, and every call a
\* worker has completed produced what the same call produces when run alone.
C12_ReadOnlyUnderInterleaving ==
    /\ [](Built => /\ ids = FreshIds
                   /\ catIds = FreshCatIds
                   /\ \A w \in Workers :
                        workers[w].out.op = "__getitem__"
                            => workers[w].out = Alone(workers[w].out.index))
    /\ [][imgToAnns' = imgToAnns]_vars

\* one worker has returned the item of an image while the other is still
\* inside get for the same image, its annotations already loaded
C12_Witness ==
    /\ Built /\ cls = "myCocolimit"
    /\ workers[1].out.op = "__getitem__" /\ workers[1].out.raised = "none"
    /\ workers[2].pc = "loaded"
    /\ workers[2].idx = workers[1].out.value[1].val
    /\ Len(workers[2].target) < Len(loadAnns(workers[2].idx))

\* the test accuracies of the epochs of this run
RunAccs == SubSeq(OddSlice(test_result), start_epoch + 1, Len(OddSlice(test_result)))

\* C13: the checkpoint file holds the best epoch so far: once main has written
\* a checkpoint, its 'acc' is at least the test accuracy of every epoch the
\* run has finished, so no later, less accurate epoch has overwritten it.
C13_CheckpointHoldsBest ==
    (mpc \in {"training", "done"} /\ ckpt.written)
        => \A i \in DOMAIN RunAccs : RunAccs[i] <= ckpt.acc

====
